---- MODULE Spec2Model ----
(***************************************************************************)
(* ArticleOrchestrator (services/orchestrator): one generation or          *)
(* regeneration run, its persisted run record, the background pipeline     *)
(* that updates the record by read-modify-write, and concurrent cancelRun  *)
(* calls.  Every await of the source is a step boundary: a read of the     *)
(* record (with the synchronous modification that follows it) and the      *)
(* write that lands later are separate steps.                              *)
(***************************************************************************)
EXTENDS Integers, Sequences, FiniteSets, TLC

VARIABLES
    plan,        \* arguments of the run: kind, options, topic flags, stagesToRun
    store,       \* storage/runs/{runId}.json: the persisted ArticleRun, or NoRun
    pc,          \* position of executeGeneration / executeRegeneration
    pRun,        \* `run` local of updateStageStatus / updateRunStatus
    err,         \* the error being propagated by the pipeline, or NoErr
    invoked,     \* stage collaborators invoked so far, in order
    acked,       \* last update of each field whose save has returned
    promise,     \* state of generationPromise
    activeRuns,  \* runId \in this.activeRuns
    unhandled,   \* a promise of the run rejected with no handler attached
    cPc,         \* position of the cancelRun call in flight
    cRun,        \* `run` local of cancelRun
    cancelLog,   \* outcome of every cancelRun call that has returned
    cancels,     \* cancelRun calls made
    now,         \* the latest value new Date() has returned
    caller,      \* the generateArticle / regenerateArticle call as its caller sees it
    request,     \* what the call asks for: topic version, stored topic file, article
    projRun,     \* a run record handed to getArticleRunStatus
    projView,    \* the response getArticleRunStatus gave for projRun
    art,         \* the article a pipeline works on, what its stages were given, what is saved
    loader,      \* a topic load: the request, the source, the outcome, the id@version cache
    svc,         \* an OrchestratorService.generateArticle call: options, position, run metadata
    runLogs,     \* the lines of the daily run log
    stats,       \* the result of getGenerationStats
    gov          \* GovernanceService: the pin files and the calls in progress

vars == <<plan, store, pc, pRun, err, invoked, acked, promise, activeRuns,
          unhandled, cPc, cRun, cancelLog, cancels, now, caller, request,
          projRun, projView, art, loader, svc, runLogs, stats, gov>>

(* ---------------------------------------------------------------- bounds *)
MaxCancels == 1
\* longest stage list handed to the status projection
MaxProjStages == 7
\* longest version string, in characters
MaxVersionLen == 6
\* calls made on one caching loader
MaxLoads == 2

(* ------------------------------------------------------------- constants *)
Stages == <<"research", "outline", "draft", "refine", "export">>
StageNames == {Stages[i] : i \in 1..Len(Stages)}
StageIndex(s) == CHOOSE i \in 1..Len(Stages) : Stages[i] = s

Unset == -1
NoError == "undefined"
NoRun == [status |-> "absent"]
NoErr == [stage |-> "none", message |-> NoError]
NoArticle == "undefined"
ExistingArticleId == "article-1"
CancelMessage == "Cancelled by user"
ThrownMessage == "rate limited"
TimeoutMessage(s) == "Stage " \o s \o " timed out"

\* new Date(): a logical clock; every step that reads it gets the next tick
Clock == {now + 1}

Range(q) == {q[i] : i \in 1..Len(q)}

(* ------------------------------------------------------------ topic load *)
\* the requested version, the topic file found for the topic id (missing, not
\* passing the schema, or a valid config of some version), and whether the
\* article to regenerate is stored
TopicRequests ==
    [version : {"1.0.0", "latest"},
     file : {"missing", "invalid", "1.0.0", "2.0.0"},
     article : {"stored", "missing"}]

NoRequest == [version |-> "none", file |-> "none", article |-> "none"]

\* TopicLoaderService.loadTopic: "ok", or the exception it throws
LoadOutcome(r) ==
    IF r.version = "latest" THEN "BadRequest"
    ELSE IF r.file = "missing" THEN "NotFound"
    ELSE IF r.file = "invalid" THEN "BadRequest"
    ELSE IF r.file # r.version THEN "BadRequest"
    ELSE "ok"

\* StorageService.getArticle
ArticleOutcome(r) == IF r.article = "stored" THEN "ok" ELSE "NotFound"

NoRunView == [status |-> "none"]
NoView == [status |-> "none"]

(* ------------------------------------------------------- run construction *)
GenerationPlans ==
    [kind : {"generate"}, skipResearch : BOOLEAN, researchEnabled : BOOLEAN,
     stagesToRun : {StageNames}]

RegenerationPlans ==
    [kind : {"regenerate"}, skipResearch : {FALSE}, researchEnabled : BOOLEAN,
     stagesToRun : SUBSET StageNames]

NoPlan == [kind |-> "none", skipResearch |-> FALSE, researchEnabled |-> FALSE,
           stagesToRun |-> {}]

\* a run record whose stages all start pending, whatever the options say
InitialStageStatus_NoPremark(p, s) == "pending"

\* stage status written into the new run record
InitialStageStatus(p, s) ==
    IF p.kind = "generate"
    THEN IF s = "research" /\ p.skipResearch THEN "cancelled" ELSE "pending"
    ELSE IF s \in p.stagesToRun THEN "pending" ELSE "cancelled"

NewStage(status) ==
    [status |-> status, error |-> NoError, started_at |-> Unset, completed_at |-> Unset]

NewRun(p, t) ==
    [status |-> "in_progress",
     error |-> NoError,
     stages |-> [s \in StageNames |-> NewStage(InitialStageStatus(p, s))],
     article_id |-> IF p.kind = "regenerate" THEN ExistingArticleId ELSE NoArticle,
     created_at |-> t,
     updated_at |-> t,
     completed_at |-> Unset]

\* the conditions guarding each executeStage call of the pipeline
Executes(p, s) ==
    IF p.kind = "generate"
    THEN s = "research" => (~p.skipResearch /\ p.researchEnabled)
    ELSE /\ s \in p.stagesToRun
         /\ s = "research" => p.researchEnabled

(* ------------------------------------------------------------- positions *)
At(k, s, st) == [k |-> k, s |-> s, st |-> st]
Idle == At("idle", "none", "none")
Done == At("done", "none", "none")

\* the pipeline with the outline and draft blocks in the wrong order
SwappedOrder == <<1, 3, 2, 4, 5>>

StageFrom_Swapped(p, i) ==
    LET at == IF i = 0 THEN 0 ELSE CHOOSE k \in 1..Len(Stages) : SwappedOrder[k] = i
        later == {k \in (at + 1)..Len(Stages) : Executes(p, Stages[SwappedOrder[k]])}
    IN  IF later = {}
        THEN At("runRead", "none", "completed")
        ELSE At("stageRead",
                Stages[SwappedOrder[CHOOSE k \in later : \A l \in later : k <= l]],
                "in_progress")

\* the first executeStage call after position i of the pipeline, or the final
\* updateRunStatus(runId, 'completed')
StageFrom(p, i) ==
    LET later == {j \in (i + 1)..Len(Stages) : Executes(p, Stages[j])}
    IN  IF later = {}
        THEN At("runRead", "none", "completed")
        ELSE At("stageRead", Stages[CHOOSE j \in later : \A l \in later : j <= l],
                "in_progress")

AfterStage(p, s) == StageFrom(p, StageIndex(s))

(* --------------------------------------------------------- record updates *)
StageTerminal(status) == status \in {"completed", "failed"}
RunTerminal(status) == status \in {"completed", "failed"}
\* a status check that forgets 'failed'
CancelRefused_OnlyCompleted(status) == status = "completed"

CancelRefused(status) == status \in {"completed", "failed"}

SetStage(run, s, status, error, t) ==
    [run EXCEPT
        !.stages[s] = [status |-> status,
                       error |-> error,
                       started_at |-> IF status = "in_progress" THEN t ELSE @.started_at,
                       completed_at |-> IF StageTerminal(status) THEN t ELSE @.completed_at],
        !.updated_at = t]

SetRun(run, status, error, t) ==
    [run EXCEPT
        !.status = status,
        !.error = error,
        !.updated_at = t,
        !.completed_at = IF RunTerminal(status) THEN t ELSE @]

CancelledRun(run, t) ==
    [run EXCEPT !.status = "failed", !.error = CancelMessage, !.updated_at = t]

(* ------------------------------------------------------------------ Init *)
\* nothing called yet on the ArticleOrchestrator
OrchInit ==
    /\ plan = NoPlan
    /\ store = NoRun
    /\ pc = Idle
    /\ pRun = NoRun
    /\ err = NoErr
    /\ invoked = <<>>
    /\ acked = NoRun
    /\ promise = "none"
    /\ activeRuns = FALSE
    /\ unhandled = FALSE
    /\ cPc = "idle"
    /\ cRun = NoRun
    /\ cancelLog = <<>>
    /\ cancels = 0
    /\ now = 0
    /\ caller = "none"
    /\ request = NoRequest

NotStarted == [k |-> "none"]

ProjIdle == projRun = NoRunView /\ projView = NoView
ArtIdle == art = NotStarted
LoaderIdle == loader = NotStarted
SvcIdle == svc = NotStarted /\ runLogs = <<>> /\ stats = NotStarted
GovIdle == gov = NotStarted

Init == OrchInit /\ ProjIdle /\ ArtIdle /\ LoaderIdle /\ SvcIdle /\ GovIdle

cancelVars == <<cPc, cRun, cancelLog, cancels>>
promiseVars == <<promise, activeRuns, unhandled>>
callVars == <<caller, request>>
projVars == <<projRun, projView>>
svcVars == <<svc, runLogs, stats>>
orchVars == <<plan, store, pc, pRun, err, invoked, acked, promiseVars, cancelVars, now, callVars>>
\* the other services, untouched by the ArticleOrchestrator's steps
otherVars == <<projVars, art, loader, svcVars, gov>>

(* -------------------------------------------------------------- entry *)
\* the call is made: runId = uuidv4(), then await topicLoader.loadTopic(...)
Call(p, r) ==
    /\ pc = Idle
    /\ caller = "none"
    /\ plan' = p
    /\ request' = r
    /\ caller' = "pending"
    /\ pc' = At("load", "none", "none")
    /\ UNCHANGED <<store, pRun, err, invoked, acked, promiseVars, cancelVars, now, otherVars>>

GenerateArticle == \E p \in GenerationPlans, r \in TopicRequests : Call(p, r)

RegenerateArticle == \E p \in RegenerationPlans, r \in TopicRequests : Call(p, r)

\* a loader failure that is logged and not rethrown
AfterLoad_Ignored(outcome) ==
    IF plan.kind = "regenerate"
    THEN At("getArticle", "none", "none")
    ELSE At("save", "none", "none")

\* the statement after await loadTopic(...): a rejection leaves the function
AfterLoad(outcome) ==
    IF outcome # "ok" THEN At("rejected", "none", "none")
    ELSE IF plan.kind = "regenerate" THEN At("getArticle", "none", "none")
    ELSE At("save", "none", "none")

\* loadTopic settles
LoadTopic ==
    /\ pc.k = "load"
    /\ pc' = AfterLoad(LoadOutcome(request))
    /\ caller' = IF LoadOutcome(request) = "ok" THEN caller ELSE LoadOutcome(request)
    /\ UNCHANGED <<plan, request, store, pRun, err, invoked, acked, promiseVars,
                   cancelVars, now, otherVars>>

\* regenerateArticle: await storage.getArticle(articleId)
GetArticle ==
    /\ pc.k = "getArticle"
    /\ IF ArticleOutcome(request) = "ok"
       THEN pc' = At("save", "none", "none") /\ UNCHANGED caller
       ELSE pc' = At("rejected", "none", "none") /\ caller' = ArticleOutcome(request)
    /\ UNCHANGED <<plan, request, store, pRun, err, invoked, acked, promiseVars,
                   cancelVars, now, otherVars>>

\* a saveArticleRun that is not awaited: the id is handed out while the write is in flight
CallerBeforeSave_NotAwaited == "returned"

\* what the caller has while saveArticleRun is in flight: the save is awaited
CallerBeforeSave == "pending"

\* the run record is built and saveArticleRun is called
BuildRun ==
    /\ pc.k = "save"
    /\ \E t \in Clock :
          /\ now' = t
          /\ pRun' = NewRun(plan, t)
    /\ caller' = CallerBeforeSave
    /\ pc' = At("saving", "none", "none")
    /\ UNCHANGED <<plan, request, store, err, invoked, acked, promiseVars,
                   cancelVars, otherVars>>

\* saveArticleRun lands; executeGeneration / executeRegeneration is called and
\* runs to its first await, the promise goes into activeRuns, the id is returned
StartRun ==
    /\ pc.k = "saving"
    /\ store' = pRun
    /\ acked' = pRun
    /\ pc' = StageFrom(plan, 0)
    /\ promise' = "pending"
    /\ activeRuns' = TRUE
    /\ caller' = "returned"
    /\ UNCHANGED <<plan, request, pRun, err, invoked, unhandled, cancelVars, now, otherVars>>

(* ---------------------------------------------------------- executeStage *)
\* updateStageStatus: getArticleRun, then the synchronous modification
StageRead ==
    /\ pc.k = "stageRead"
    /\ \E t \in Clock :
          /\ now' = t
          /\ pRun' = SetStage(store, pc.s, pc.st,
                              IF pc.st = "failed" THEN err.message ELSE NoError, t)
    /\ pc' = At("stageWrite", pc.s, pc.st)
    /\ UNCHANGED <<plan, store, err, invoked, acked, promiseVars, cancelVars>>
    /\ UNCHANGED <<callVars, otherVars>>

\* a catch block that records the failure and does not rethrow
AfterFailed_Swallowed(s) == AfterStage(plan, s)

\* where executeStage goes once updateStageStatus(..., 'failed') has returned:
\* it rethrows into the catch of executeGeneration / executeRegeneration
\* a catch block that logs the failure and leaves the run record alone
AfterFailed_NotRecorded(s) == Done

AfterFailed(s) == At("runRead", "none", "failed")

AfterStageWrite(s, st) ==
    CASE st = "in_progress" -> At("invoke", s, "none")
      [] st = "completed"   -> AfterStage(plan, s)
      [] st = "failed"      -> AfterFailed(s)

\* updateStageStatus: saveArticleRun lands and returns
StageWrite ==
    /\ pc.k = "stageWrite"
    /\ store' = pRun
    /\ acked' = [acked EXCEPT !.stages[pc.s] = pRun.stages[pc.s],
                              !.updated_at = pRun.updated_at]
    /\ pc' = AfterStageWrite(pc.s, pc.st)
    /\ UNCHANGED <<plan, pRun, err, invoked, promiseVars, cancelVars, now>>
    /\ UNCHANGED <<callVars, otherVars>>

\* stageFunction() is called inside Promise.race
Invoke ==
    /\ pc.k = "invoke"
    /\ invoked' = Append(invoked, pc.s)
    /\ pc' = At("race", pc.s, "none")
    /\ UNCHANGED <<plan, store, pRun, err, acked, promiseVars, cancelVars, now>>
    /\ UNCHANGED <<callVars, otherVars>>

\* a pipeline that goes on to the next stage without recording the completion
AfterReturn_Unsaved(s) == AfterStage(plan, s)

\* the stage function returned: await updateStageStatus(..., 'completed')
AfterReturn(s) == At("stageRead", s, "completed")

StageReturns ==
    /\ pc.k = "race"
    /\ pc' = AfterReturn(pc.s)
    /\ UNCHANGED <<plan, store, pRun, err, invoked, acked, promiseVars, cancelVars, now>>
    /\ UNCHANGED <<callVars, otherVars>>

StageThrows ==
    /\ pc.k = "race"
    /\ err' = [stage |-> pc.s, message |-> ThrownMessage]
    /\ pc' = At("stageRead", pc.s, "failed")
    /\ UNCHANGED <<plan, store, pRun, invoked, acked, promiseVars, cancelVars, now>>
    /\ UNCHANGED <<callVars, otherVars>>

\* a timeout that resolves the race instead of rejecting it
AfterTimeout_Resolved(s) == At("stageRead", s, "completed")

\* the timeout promise rejects the race: executeStage's catch block runs
AfterTimeout(s) == At("stageRead", s, "failed")

StageTimesOut ==
    /\ pc.k = "race"
    /\ err' = [stage |-> pc.s, message |-> TimeoutMessage(pc.s)]
    /\ pc' = AfterTimeout(pc.s)
    /\ UNCHANGED <<plan, store, pRun, invoked, acked, promiseVars, cancelVars, now>>
    /\ UNCHANGED <<callVars, otherVars>>

(* --------------------------------------------------------- updateRunStatus *)
RunRead ==
    /\ pc.k = "runRead"
    /\ \E t \in Clock :
          /\ now' = t
          /\ pRun' = SetRun(store, pc.st,
                            IF pc.st = "failed" THEN err.message ELSE NoError, t)
    /\ pc' = At("runWrite", "none", pc.st)
    /\ UNCHANGED <<plan, store, err, invoked, acked, promiseVars, cancelVars>>
    /\ UNCHANGED <<callVars, otherVars>>

\* the write lands; executeGeneration returns, or rethrows from its catch
RunWrite ==
    /\ pc.k = "runWrite"
    /\ store' = pRun
    /\ acked' = [acked EXCEPT !.status = pRun.status, !.error = pRun.error,
                              !.completed_at = pRun.completed_at,
                              !.updated_at = pRun.updated_at]
    /\ promise' = IF pc.st = "failed" THEN "rejected" ELSE "fulfilled"
    /\ pc' = Done
    /\ UNCHANGED <<plan, pRun, err, invoked, activeRuns, unhandled, cancelVars, now>>
    /\ UNCHANGED <<callVars, otherVars>>

\* generationPromise.finally(() => activeRuns.delete(runId)): the promise that
\* finally() returns settles like generationPromise and has no handler
FinallyHandled == FALSE

PromiseFinally ==
    /\ promise \in {"fulfilled", "rejected"}
    /\ activeRuns
    /\ activeRuns' = FALSE
    /\ unhandled' = (promise = "rejected" /\ ~FinallyHandled)
    /\ UNCHANGED <<plan, store, pc, pRun, err, invoked, acked, promise, cancelVars, now>>
    /\ UNCHANGED <<callVars, otherVars>>

(* --------------------------------------------------------------- cancelRun *)
\* getArticleRun and the status check; a refused call throws BadRequestException
CancelRead ==
    /\ store # NoRun
    /\ cPc = "idle"
    /\ cancels < MaxCancels
    /\ cancels' = cancels + 1
    /\ IF CancelRefused(store.status)
       THEN /\ cancelLog' = Append(cancelLog, "BadRequest")
            /\ UNCHANGED <<cPc, cRun, now>>
       ELSE /\ \E t \in Clock :
                  /\ now' = t
                  /\ cRun' = CancelledRun(store, t)
            /\ cPc' = "write"
            /\ UNCHANGED cancelLog
    /\ UNCHANGED <<plan, store, pc, pRun, err, invoked, acked, promiseVars>>
    /\ UNCHANGED <<callVars, otherVars>>

CancelWrite ==
    /\ cPc = "write"
    /\ store' = cRun
    /\ acked' = [acked EXCEPT !.status = cRun.status, !.error = cRun.error,
                              !.updated_at = cRun.updated_at]
    /\ cancelLog' = Append(cancelLog, "ok")
    /\ cPc' = "idle"
    /\ cRun' = NoRun
    /\ UNCHANGED <<plan, pc, pRun, err, invoked, promiseVars, cancels, now>>
    /\ UNCHANGED <<callVars, otherVars>>

Next ==
    \/ GenerateArticle
    \/ RegenerateArticle
    \/ LoadTopic
    \/ GetArticle
    \/ BuildRun
    \/ StartRun
    \/ StageRead
    \/ StageWrite
    \/ Invoke
    \/ StageReturns
    \/ StageThrows
    \/ StageTimesOut
    \/ RunRead
    \/ RunWrite
    \/ PromiseFinally
    \/ CancelRead
    \/ CancelWrite

Spec == Init /\ [][Next]_vars

(* ================================================================ claims *)
LaterStages(s) == {Stages[j] : j \in (StageIndex(s) + 1)..Len(Stages)}
InProgress(run) == {s \in StageNames : run.stages[s].status = "in_progress"}
CancelSucceeded == "ok" \in Range(cancelLog)
NoCancelEffect == cPc = "idle" /\ ~CancelSucceeded

\* C1: when the collaborator of stage k throws or times out, stage k's failed
\* update is saved, no later stage leaves its initial status, no later
\* collaborator is invoked, and the run ends failed; with no cancelRun write
\* involved the record ends with stage k failed and run.error = the stage's error.
C1_FailureHaltsPipeline ==
    err # NoErr =>
        /\ invoked # <<>>
        /\ invoked[Len(invoked)] = err.stage
        /\ \A s \in LaterStages(err.stage) :
              /\ s \notin Range(invoked)
              /\ store.stages[s] = NewStage(InitialStageStatus(plan, s))
        /\ pc.k \in {"runRead", "runWrite", "done"} =>
              /\ acked.stages[err.stage].status = "failed"
              /\ acked.stages[err.stage].error = err.message
        /\ pc = Done => store.status = "failed"
        /\ (pc = Done /\ NoCancelEffect) =>
              /\ store.error = err.message
              /\ store.stages[err.stage].status = "failed"
              /\ store.stages[err.stage].error = err.message
              /\ \A s \in Range(invoked) \ {err.stage} :
                    store.stages[s].status = "completed"

\* a run that failed at draft after research and outline completed
C1_Witness ==
    /\ pc = Done
    /\ err.stage = "draft"
    /\ NoCancelEffect
    /\ store.status = "failed"
    /\ store.stages["outline"].status = "completed"
    /\ store.stages["refine"].status = "pending"

\* C2: collaborators are invoked in pipeline order, a stage is marked
\* in_progress and invoked only after the completed update of every stage
\* invoked before it has returned, and the recorded started_at values are
\* non-decreasing in pipeline order.
C2_SequentialStages ==
    /\ \A i, j \in 1..Len(invoked) :
          i < j => StageIndex(invoked[i]) < StageIndex(invoked[j])
    /\ \A i \in 1..(Len(invoked) - 1) :
          acked.stages[invoked[i]].status = "completed"
    /\ (pc.k \in {"stageRead", "stageWrite"} /\ pc.st = "in_progress") \/ pc.k = "invoke" =>
          \A s \in Range(invoked) : acked.stages[s].status = "completed"
    /\ store # NoRun =>
          \A a, b \in StageNames :
              (/\ StageIndex(a) < StageIndex(b)
               /\ store.stages[a].started_at # Unset
               /\ store.stages[b].started_at # Unset)
              => store.stages[a].started_at <= store.stages[b].started_at

\* all five stages ran, and the clock moved between the first and the last
C2_Witness ==
    /\ pc = Done
    /\ Len(invoked) = Len(Stages)
    /\ store.stages["research"].started_at < store.stages["export"].started_at

\* C3: no promise of the run ends rejected without a handler.
C3_NoUnhandledRejection == ~unhandled

\* C4: once a cancelRun call has succeeded, executeStage never starts another
\* stage: no read-modify-write that marks a stage in_progress begins, so no
\* collaborator other than the one already in flight is invoked.
C4_CancelStopsLaterStages ==
    [][CancelSucceeded =>
          ~(pc.k = "stageRead" /\ pc.st = "in_progress" /\ pc'.k = "stageWrite")]_vars

\* C5: once the persisted run status is completed or failed, the status and
\* the error never change.
C5_TerminalRunStatusIsFinal ==
    [][(store # NoRun /\ store.status \in {"completed", "failed"}) =>
          /\ store'.status = store.status
          /\ store'.error = store.error]_vars

\* C6: the record saved by a successful cancelRun has status failed, the
\* cancelled-by-user error and completed_at set to the time of the call.
C6_CancelSetsCompletedAt ==
    [][CancelWrite =>
          /\ store'.status = "failed"
          /\ store'.error = CancelMessage
          /\ store'.completed_at = store'.updated_at]_vars

\* C7: a cancelRun call that finds the run completed or failed is refused
\* with BadRequest, writes nothing and leaves the persisted record unchanged.
C7_CancelOfTerminalRunRefused ==
    [][(/\ store # NoRun
        /\ store.status \in {"completed", "failed"}
        /\ cancels' = cancels + 1) =>
          /\ store' = store
          /\ cPc' = "idle"
          /\ cancelLog' = Append(cancelLog, "BadRequest")]_vars

\* a cancelRun call was refused on a run that ended completed
C7_Witness ==
    /\ cancelLog # <<>>
    /\ cancelLog[Len(cancelLog)] = "BadRequest"
    /\ store.status = "completed"
    /\ cPc = "idle"

\* C8: the persisted record reflects every update whose save has returned.
C8_NoLostUpdate == store = acked

\* C9: at most one stage of the persisted record is in_progress.
C9_AtMostOneStageInProgress ==
    store # NoRun => Cardinality(InProgress(store)) <= 1

\* C10: a stage persisted as completed or failed keeps its status, error and
\* completed_at.
C10_TerminalStageIsFinal ==
    [][\A s \in StageNames :
          (store # NoRun /\ store.stages[s].status \in {"completed", "failed"}) =>
              /\ store'.stages[s].status = store.stages[s].status
              /\ store'.stages[s].error = store.stages[s].error
              /\ store'.stages[s].completed_at = store.stages[s].completed_at]_vars

(* ------------------------------------------------------------ C11 .. C20 *)
\* StorageService.getArticleRun on the stored file
GetArticleRun(file) == IF file = NoRun THEN "NotFound" ELSE "ok"

Rejected == caller \in {"BadRequest", "NotFound"}

\* C11: when the topic cannot be loaded or validated (version 'latest', no
\* topic file, a file that fails the schema, a file of another version), the
\* call rejects to its caller with BadRequest or NotFound, no run record is
\* built or stored, no stage function is called and no pipeline promise exists.
C11_UnloadableTopicCreatesNoRun ==
    (/\ request # NoRequest
     /\ \/ request.version = "latest"
        \/ request.file = "missing"
        \/ request.file = "invalid"
        \/ request.file # request.version)
    => /\ pc.k = "load" \/ (Rejected /\ pc.k = "rejected")
       /\ request.file = "missing" /\ request.version # "latest" /\ Rejected
            => caller = "NotFound"
       /\ store = NoRun
       /\ pRun = NoRun
       /\ invoked = <<>>
       /\ promise = "none"
       /\ ~activeRuns

C11_Witness ==
    /\ request.version = "1.0.0"
    /\ request.file = "invalid"
    /\ caller = "BadRequest"
    /\ pc.k = "rejected"

\* C12: while the caller is still waiting no stage function has been called,
\* so the id is returned before any stage runs; and once the id has been
\* returned a read of the run record succeeds in every later state.
C12_ReturnedRunIsReadable ==
    /\ caller = "pending" => invoked = <<>>
    /\ caller = "returned" => GetArticleRun(store) = "ok"

C12_Witness ==
    /\ plan.kind = "generate"
    /\ caller = "returned"
    /\ GetArticleRun(store) = "ok"
    /\ invoked = <<>>
    /\ \A s \in StageNames : store.stages[s].started_at = Unset

\* the record generateArticle has built and is saving
CreatedByGenerate == pc.k = "saving" /\ plan.kind = "generate"

C14_DisabledResearchEndsSkipped ==
    (plan.kind = "generate" /\ ~plan.researchEnabled) =>
        /\ "research" \notin Range(invoked)
        /\ (pc = Done /\ cancels = 0 /\ store.status = "completed")
               => store.stages["research"].status \notin {"pending", "in_progress"}

(* ------------------------------------------------------ status projection *)
StageStatuses == {"pending", "in_progress", "completed", "failed", "cancelled"}
RunStatuses == {"in_progress", "completed", "failed"}

\* names of the stages of a record, in order; the pipeline's five come first
ProjStageNames == Stages \o <<"stage6", "stage7", "stage8">>

\* run.stages as the array the record holds
StageList(run) ==
    [i \in 1..Len(Stages) |-> [stage |-> Stages[i], status |-> run.stages[Stages[i]].status]]

\* every stage array of a given length
StageLists(n) ==
    {[i \in 1..n |-> [stage |-> ProjStageNames[i], status |-> f[i]]] :
        f \in [1..n -> StageStatuses]}

\* every run record with status st and n stages
ProjRuns(st, n) == {[status |-> st, stages |-> l] : l \in StageLists(n)}

\* a projection that truncates instead of rounding
RoundedPercent_Floor(n, d) == (100 * n) \div d

\* Math.round((n / d) * 100): nearest integer, halves upwards
RoundedPercent(n, d) == (200 * n + d) \div (2 * d)

IsCompleted(s) == s.status = "completed"
IsInProgress(s) == s.status = "in_progress"

Progress(stages) ==
    LET totalStages == Len(stages)
        completedStages == Len(SelectSeq(stages, IsCompleted))
    IN  IF totalStages > 0 THEN RoundedPercent(completedStages, totalStages) ELSE 0

\* run.stages.find(s => s.status === 'in_progress')?.stage
CurrentStage(stages) ==
    LET running == SelectSeq(stages, IsInProgress)
    IN  IF running = <<>> THEN "undefined" ELSE Head(running).stage

StatusView(run) ==
    [status |-> run.status,
     currentStage |-> CurrentStage(run.stages),
     progress |-> Progress(run.stages)]

ProjInit ==
    /\ OrchInit /\ ArtIdle /\ LoaderIdle /\ SvcIdle /\ GovIdle
    /\ \E st \in RunStatuses, n \in 0..MaxProjStages : projRun \in ProjRuns(st, n)
    /\ projView = NoView

GetArticleRunStatus ==
    /\ projView = NoView
    /\ projView' = StatusView(projRun)
    /\ UNCHANGED <<orchVars, projRun, art, loader, svcVars, gov>>

ProjNext == GetArticleRunStatus

ProjectionSpec == ProjInit /\ [][ProjNext]_vars

\* C15: whenever the stored run has status completed, the status projection
\* of that record reports progress 100, also when some stages were bypassed
\* and never reached status completed.
C15_CompletedRunReportsFullProgress ==
    (store # NoRun /\ store.status = "completed")
        => StatusView([status |-> store.status, stages |-> StageList(store)]).progress = 100

\* number of stages of a record with a given status
CountWithStatus(run, st) ==
    Cardinality({i \in 1..Len(run.stages) : run.stages[i].status = st})

\* C16: the response for a run record carries the run status; progress is 0
\* for a record without stages and otherwise the integer in 0..100 nearest to
\* 100 * completed / total (halves upwards); currentStage is undefined when no
\* stage is in_progress and otherwise names the first in_progress stage; five
\* stages with two completed give 40.
C16_ProjectionOfRunRecord ==
    projView # NoView =>
        LET t == Len(projRun.stages)
            c == CountWithStatus(projRun, "completed")
            g == projView.progress
        IN  /\ projView.status = projRun.status
            /\ g \in 0..100
            /\ t = 0 => g = 0
            /\ t > 0 => (-t < 2 * (g * t - 100 * c) /\ 2 * (g * t - 100 * c) <= t)
            /\ (t = 5 /\ c = 2) => g = 40
            /\ c = t /\ t > 0 => g = 100
            /\ CountWithStatus(projRun, "in_progress") = 0
                   => projView.currentStage = "undefined"
            /\ CountWithStatus(projRun, "in_progress") > 0
                   => \E i \in 1..t :
                         /\ projRun.stages[i].status = "in_progress"
                         /\ projView.currentStage = projRun.stages[i].stage
                         /\ \A j \in 1..(i - 1) : projRun.stages[j].status # "in_progress"

C16_Witness ==
    /\ projView # NoView
    /\ Len(projRun.stages) = 5
    /\ CountWithStatus(projRun, "completed") = 2
    /\ CountWithStatus(projRun, "in_progress") = 1
    /\ projRun.stages[3].status = "in_progress"
    /\ projView.progress = 40
    /\ projView.currentStage = "draft"

\* C17: a run started by generateArticle that has ended completed, its export
\* stage having saved the article, carries that article's id in article_id.
C17_CompletedRunHasArticleId ==
    (/\ plan.kind = "generate"
     /\ pc = Done
     /\ store.status = "completed"
     /\ store.stages["export"].status = "completed")
    => store.article_id # NoArticle

(* ---------------------------------------------------------------- progress *)
\* the continuations of executeGeneration / executeRegeneration: each runs once
\* the promise it awaits has settled; a stage function's race settles by
\* returning, throwing or timing out
Pipeline ==
    \/ StageRead
    \/ StageWrite
    \/ Invoke
    \/ StageReturns
    \/ StageThrows
    \/ StageTimesOut
    \/ RunRead
    \/ RunWrite

\* storage operations complete; settled promises get their continuations run
LiveSpec == Spec /\ WF_vars(Pipeline) /\ WF_vars(CancelWrite)

\* C18: once the run record of a started run is stored, the run reaches status
\* completed or failed, and from some point on keeps a terminal status.
C18_RunReachesTerminalStatus ==
    (store # NoRun) ~> [](store.status \in {"completed", "failed"})

C18_Witness ==
    /\ pc = Done
    /\ cPc = "idle"
    /\ store.status = "failed"
    /\ store.error = ThrownMessage
    /\ promise = "rejected"

\* no pipeline step and no cancelRun call is in flight
Settled == pc = Done /\ cPc = "idle"

\* C19: once processing of a run has settled, the stored record has
\* completed_at set exactly when its status is completed or failed.
C19_CompletedAtIffTerminal ==
    Settled => (store.completed_at # Unset <=> store.status \in {"completed", "failed"})

TimedOutStages ==
    {s \in {"research", "outline", "draft", "refine", "export"} :
        err.stage = s /\ err.message = "Stage " \o s \o " timed out"}

\* C20: after the timeout of stage k fires, the pipeline goes the way of a
\* thrown error: the stage's failed update with the message 'Stage k timed out'
\* is the next thing saved, no later stage function is called and no later
\* stage record leaves its initial status, and the run ends failed; with no
\* cancelRun write involved the record ends with stage k failed and both the
\* stage error and the run error equal to the timeout message.
C20_TimeoutIsStageFailure ==
    \A k \in TimedOutStages :
        /\ invoked # <<>> /\ invoked[Len(invoked)] = k
        /\ \/ pc.k \in {"stageRead", "stageWrite"} /\ pc.s = k /\ pc.st = "failed"
           \/ pc.k \in {"runRead", "runWrite"} /\ pc.st = "failed"
           \/ pc = Done
        /\ pc.k = "stageWrite" =>
              /\ pRun.stages[k].status = "failed"
              /\ pRun.stages[k].error = "Stage " \o k \o " timed out"
        /\ \A s \in LaterStages(k) :
              /\ s \notin Range(invoked)
              /\ store.stages[s].started_at = Unset
              /\ store.stages[s].status \in {"pending", "cancelled"}
        /\ pc.k \in {"runRead", "runWrite", "done"} =>
              /\ acked.stages[k].status = "failed"
              /\ acked.stages[k].error = "Stage " \o k \o " timed out"
        /\ pc = Done => store.status = "failed" /\ promise = "rejected"
        /\ (pc = Done /\ NoCancelEffect) =>
              /\ store.error = "Stage " \o k \o " timed out"
              /\ store.stages[k].status = "failed"
              /\ store.stages[k].error = "Stage " \o k \o " timed out"
              /\ store.stages[k].completed_at # Unset

\* a run whose draft stage timed out after research and outline completed
C20_Witness ==
    /\ pc = Done
    /\ NoCancelEffect
    /\ err.stage = "draft"
    /\ store.stages["draft"].error = "Stage draft timed out"
    /\ store.error = "Stage draft timed out"
    /\ store.status = "failed"
    /\ store.stages["refine"].started_at = Unset

(* ------------------------------------------------------------ C21 .. C30 *)
\* stages of the stored record with a given status
WithStatus(run, st) == {s \in StageNames : run.stages[s].status = st}

EarlierStages(s) == {Stages[j] : j \in 1..(StageIndex(s) - 1)}

\* C21: a stage is marked in_progress and its stage function called only
\* after the save recording the completion of every stage called before it has
\* returned; and while the stored run has status in_progress its record shows
\* completed stages followed by at most one in_progress stage: nothing after
\* the in_progress stage has started, nothing before it is in_progress or
\* failed, and every stage called before it is completed.
C21_StageSavedBeforeNextStarts ==
    /\ ((pc.k \in {"stageRead", "stageWrite"} /\ pc.st = "in_progress") \/ pc.k = "invoke")
          => \A s \in Range(invoked) :
                /\ acked.stages[s].status = "completed"
                /\ acked.stages[s].completed_at # Unset
                /\ acked.stages[s].completed_at <= now
    /\ (store # NoRun /\ store.status = "in_progress") =>
          /\ Cardinality(WithStatus(store, "in_progress")) <= 1
          /\ \A s \in WithStatus(store, "in_progress") :
                /\ \A l \in LaterStages(s) :
                      /\ store.stages[l].started_at = Unset
                      /\ store.stages[l].status \in {"pending", "cancelled"}
                /\ \A e \in EarlierStages(s) :
                      /\ store.stages[e].status \in {"completed", "pending", "cancelled"}
                      /\ e \in Range(invoked) => store.stages[e].status = "completed"
          /\ \A s \in WithStatus(store, "completed") :
                \A e \in EarlierStages(s) :
                    store.stages[e].status \in {"completed", "pending", "cancelled"}

\* outline and draft saved as completed, refine in_progress, export untouched
C21_Witness ==
    /\ store # NoRun
    /\ store.status = "in_progress"
    /\ pc.k = "race"
    /\ WithStatus(store, "completed") = {"research", "outline", "draft"}
    /\ WithStatus(store, "in_progress") = {"refine"}
    /\ store.stages["export"].started_at = Unset

\* C22: a run started by regenerateArticle is linked to the existing article;
\* its new record marks exactly the requested stages pending and every other
\* stage bypassed (skipped or cancelled); only requested stage functions are
\* called, in pipeline order; and when the run has completed with no cancelRun
\* involved, every requested stage has been called.
C22_RegenerationRunsRequestedStages ==
    plan.kind = "regenerate" =>
        /\ pc.k = "saving" =>
              /\ pRun.article_id = ExistingArticleId
              /\ \A s \in StageNames :
                    IF s \in plan.stagesToRun
                    THEN pRun.stages[s].status = "pending"
                    ELSE pRun.stages[s].status \in {"skipped", "cancelled"}
        /\ store # NoRun => store.article_id = ExistingArticleId
        /\ Range(invoked) \subseteq plan.stagesToRun
        /\ \A i, j \in 1..Len(invoked) :
              i < j => StageIndex(invoked[i]) < StageIndex(invoked[j])
        /\ (pc = Done /\ cancels = 0 /\ store.status = "completed")
              => Range(invoked) = plan.stagesToRun

(* --------------------------------------------------- the article artifacts *)
\* the artifacts of an article: "old" is what the stored article holds before
\* the run, "none" an artifact not produced yet, anything else a stage output
ExistingArtifacts == [citations |-> "old", outline |-> "old", content |-> "old", seo |-> "old"]

\* executeGeneration starts from an article with citations: [] and nothing else
EmptyArtifacts == [citations |-> "empty", outline |-> "none", content |-> "none", seo |-> "none"]

NoInput == [research |-> "n/a", outline |-> "n/a", content |-> "n/a", citations |-> "n/a"]

\* what a stage function closes over when it is called
StageInput(s, a) ==
    CASE s = "research" -> NoInput
      [] s = "outline"  -> [NoInput EXCEPT !.research = a.researchResult]
      [] s = "draft"    -> [NoInput EXCEPT !.outline = a.outline, !.research = a.researchResult]
      [] s = "refine"   -> [NoInput EXCEPT !.content = a.content, !.citations = a.article.citations]
      [] s = "export"   -> [NoInput EXCEPT !.outline = a.article.outline,
                                           !.content = a.article.content,
                                           !.citations = a.article.citations]

\* a pipeline in which every stage output replaces the whole article
StageResult_Clobbers(s, a) ==
    [a EXCEPT !.article = [citations |-> "new", outline |-> "new", content |-> "refined",
                           seo |-> "new"]]

\* the assignments after a stage function has returned
StageResult(s, a) ==
    CASE s = "research" -> [a EXCEPT !.researchResult = "new", !.article.citations = "new"]
      [] s = "outline"  -> [a EXCEPT !.outline = "new", !.article.outline = "new"]
      [] s = "draft"    -> [a EXCEPT !.content = "draft", !.article.content = "draft"]
      [] s = "refine"   -> [a EXCEPT !.content = "refined", !.article.content = "refined",
                                     !.article.seo = "new"]
      [] s = "export"   -> a

\* the else branch of the research block: regeneration wraps the stored
\* citations, generation leaves researchResult null
ResearchBypassed(a) ==
    IF a.plan.kind = "regenerate"
    THEN [a EXCEPT !.researchResult = a.article.citations]
    ELSE a

ArtStart(p) ==
    [k |-> "pipeline",
     plan |-> p,
     at |-> 1,
     phase |-> "block",
     article |-> IF p.kind = "regenerate" THEN ExistingArtifacts ELSE EmptyArtifacts,
     researchResult |-> "null",
     outline |-> IF p.kind = "regenerate" THEN "old" ELSE "none",
     content |-> IF p.kind = "regenerate" THEN "old" ELSE "none",
     inputs |-> [s \in StageNames |-> NoInput],
     called |-> <<>>,
     flight |-> "none",
     run |-> "in_progress",
     saved |-> IF p.kind = "regenerate" THEN ExistingArtifacts ELSE EmptyArtifacts,
     savedByRun |-> FALSE,
     exported |-> FALSE,
     late |-> {}]

ArtInit ==
    /\ OrchInit /\ ProjIdle /\ LoaderIdle /\ SvcIdle /\ GovIdle
    /\ \E p \in GenerationPlans \cup RegenerationPlans : art = ArtStart(p)

artFrame == <<orchVars, projVars, loader, svcVars, gov>>

ArtStage == Stages[art.at]

\* a block of the pipeline whose condition holds: executeStage calls the stage function
ArtCallStage ==
    /\ art.k = "pipeline" /\ art.phase = "block" /\ art.at \in 1..Len(Stages)
    /\ Executes(art.plan, ArtStage)
    /\ art' = [art EXCEPT !.phase = "race",
                          !.inputs[ArtStage] = StageInput(ArtStage, art),
                          !.called = Append(@, ArtStage),
                          !.flight = IF ArtStage = "export" THEN "saveArticle" ELSE "agent"]
    /\ UNCHANGED artFrame

\* a block whose condition fails
ArtBypassStage ==
    /\ art.k = "pipeline" /\ art.phase = "block" /\ art.at \in 1..Len(Stages)
    /\ ~Executes(art.plan, ArtStage)
    /\ art' = [(IF ArtStage = "research" THEN ResearchBypassed(art) ELSE art)
                   EXCEPT !.at = @ + 1]
    /\ UNCHANGED artFrame

\* the collaborator wins the race: its result is assigned
ArtAgentReturns ==
    /\ art.k = "pipeline" /\ art.phase = "race" /\ art.flight = "agent"
    /\ art' = [StageResult(ArtStage, art) EXCEPT !.flight = "none", !.phase = "block",
                                                  !.at = @ + 1]
    /\ UNCHANGED artFrame

\* a collaborator call that lost the race settles: nobody reads its result
ArtLateReturn ==
    /\ art.k = "pipeline" /\ art.phase # "race" /\ art.flight = "agent"
    /\ art' = [art EXCEPT !.flight = "none"]
    /\ UNCHANGED artFrame

\* which writes of a run land after the run was marked failed
LateWrite(a, what) == IF a.run = "failed" THEN a.late \cup {what} ELSE a.late

\* the export stage function: await this.storage.saveArticle(article)
ArtSaveArticle ==
    /\ art.k = "pipeline" /\ art.flight = "saveArticle"
    /\ art' = [art EXCEPT !.saved = art.article, !.savedByRun = TRUE,
                          !.flight = "saveExport", !.late = LateWrite(art, "article")]
    /\ UNCHANGED artFrame

\* the export stage function: exportArticle and saveExport for the formats
ArtSaveExport ==
    /\ art.k = "pipeline" /\ art.flight = "saveExport"
    /\ art' = [art EXCEPT !.exported = TRUE, !.flight = "ended",
                          !.late = LateWrite(art, "export")]
    /\ UNCHANGED artFrame

ArtExportReturns ==
    /\ art.k = "pipeline" /\ art.phase = "race" /\ art.flight = "ended"
    /\ art' = [art EXCEPT !.flight = "none", !.phase = "block", !.at = @ + 1]
    /\ UNCHANGED artFrame

\* the stage function rejects: it has stopped
ArtThrows ==
    /\ art.k = "pipeline" /\ art.phase = "race"
    /\ art.flight \in {"agent", "saveArticle", "saveExport"}
    /\ art' = [art EXCEPT !.flight = "none", !.phase = "failing"]
    /\ UNCHANGED artFrame

\* Promise.race settles with the timeout; the stage function is not told
FlightAfterTimeout(f) == f

ArtTimesOut ==
    /\ art.k = "pipeline" /\ art.phase = "race" /\ art.flight # "ended"
    /\ art' = [art EXCEPT !.flight = FlightAfterTimeout(@), !.phase = "failing"]
    /\ UNCHANGED artFrame

\* updateStageStatus(failed), rethrow, updateRunStatus(failed)
ArtMarkFailed ==
    /\ art.k = "pipeline" /\ art.phase = "failing"
    /\ art' = [art EXCEPT !.run = "failed", !.phase = "done"]
    /\ UNCHANGED artFrame

\* updateRunStatus(completed)
ArtComplete ==
    /\ art.k = "pipeline" /\ art.phase = "block" /\ art.at = Len(Stages) + 1
    /\ art' = [art EXCEPT !.run = "completed", !.phase = "done"]
    /\ UNCHANGED artFrame

ArtNext ==
    \/ ArtCallStage
    \/ ArtBypassStage
    \/ ArtAgentReturns
    \/ ArtLateReturn
    \/ ArtSaveArticle
    \/ ArtSaveExport
    \/ ArtExportReturns
    \/ ArtThrows
    \/ ArtTimesOut
    \/ ArtMarkFailed
    \/ ArtComplete

ArtifactSpec == ArtInit /\ [][ArtNext]_vars

\* the artifact a regeneration of the stage set S should hand on: the fresh
\* output of the producing stage when that stage is in S, else the stored one
Expected(S, producer, fresh) == IF producer \in S THEN fresh ELSE "old"

\* C23: in a regeneration of the stage set S, every stage function called
\* was given, for each earlier stage, the fresh output if that stage is in S
\* and the stored artifact otherwise.
C23_RegenerationInputs ==
    (art.k = "pipeline" /\ art.plan.kind = "regenerate") =>
        LET S == art.plan.stagesToRun
            in == art.inputs
            called == Range(art.called)
        IN  /\ "outline" \in called =>
                  in["outline"].research = Expected(S, "research", "new")
            /\ "draft" \in called =>
                  /\ in["draft"].outline = Expected(S, "outline", "new")
                  /\ in["draft"].research = Expected(S, "research", "new")
            /\ "refine" \in called =>
                  /\ in["refine"].content = Expected(S, "draft", "draft")
                  /\ in["refine"].citations = Expected(S, "research", "new")
            /\ "export" \in called =>
                  /\ in["export"].outline = Expected(S, "outline", "new")
                  /\ in["export"].citations = Expected(S, "research", "new")
                  /\ in["export"].content =
                        IF "refine" \in S THEN "refined" ELSE Expected(S, "draft", "draft")

\* C24: in a regeneration of the stage set S the saved article keeps the
\* stored citations unless research is in S, the stored outline unless outline
\* is in S, the stored content unless draft or refine is in S, and the stored
\* SEO metadata unless refine is in S; this holds at every save of the run,
\* also one landing after a timeout.
C24_RegenerationKeepsOtherArtifacts ==
    (art.k = "pipeline" /\ art.plan.kind = "regenerate") =>
        LET S == art.plan.stagesToRun
        IN  /\ "research" \notin S => art.saved.citations = "old"
            /\ "outline" \notin S => art.saved.outline = "old"
            /\ ("draft" \notin S /\ "refine" \notin S) => art.saved.content = "old"
            /\ "refine" \notin S => art.saved.seo = "old"
            /\ "export" \notin S => art.saved = ExistingArtifacts /\ ~art.savedByRun

\* draft and export regenerated: the new draft is saved beside the stored
\* citations, outline and SEO metadata
C24_Witness ==
    /\ art.k = "pipeline"
    /\ art.plan.kind = "regenerate"
    /\ art.plan.stagesToRun = {"draft", "export"}
    /\ art.run = "completed"
    /\ art.savedByRun
    /\ art.saved = [citations |-> "old", outline |-> "old", content |-> "draft", seo |-> "old"]

\* C29: nothing of a run is persisted after the run was marked failed.
C29_NothingPersistedAfterFailure ==
    art.k = "pipeline" => art.late = {}

(* --------------------------------------------------- topic loaders, versions *)
\* a version string is a sequence of characters; "latest" stands for that word
VersionChars == {"1", ".", "*", "latest"}
Latest == <<"latest">>
IsDigit(c) == c \in {"1", "2"}

\* /^\d+\.\d+\.\d+$/ scanning v from position i: part is the number of the
\* digit group being read, seen whether it has a digit yet
RECURSIVE SemverScan(_, _, _, _)
SemverScan(v, i, part, seen) ==
    IF i > Len(v) THEN part = 3 /\ seen
    ELSE IF IsDigit(v[i]) THEN SemverScan(v, i + 1, part, TRUE)
    ELSE IF v[i] = "." /\ seen /\ part < 3 THEN SemverScan(v, i + 1, part + 1, FALSE)
    ELSE FALSE

\* the pattern without its end anchor
IsSemver_Unanchored(v) == \E n \in 1..Len(v) : SemverScan(SubSeq(v, 1, n), 1, 1, FALSE)

IsSemver(v) == SemverScan(v, 1, 1, FALSE)

\* what the topic source holds: nothing, data that fails the schema apart from
\* its version, or a config carrying some version string
NoTopicData == [kind |-> "missing", version |-> <<>>]
BadTopicData == [kind |-> "invalid", version |-> <<>>]
ConfigOf(v) == [kind |-> "config", version |-> v]

OtherVersions ==
    {<<"1", ".", "1", ".", "1">>, <<"2", ".", "1", ".", "1">>, Latest, <<"1", ".", "*">>}

TopicSources(req) == {NoTopicData, BadTopicData} \cup {ConfigOf(v) : v \in {req} \cup OtherVersions}

\* TopicConfigSchema.parse succeeds
SchemaValid(src) == src.kind = "config" /\ IsSemver(src.version)

Outcome(status, v) == [status |-> status, version |-> v]
Pending == Outcome("pending", <<>>)

\* TopicLoaderService.loadTopic of the orchestrator's loader
LoadTopicResult(req, src) ==
    IF req = Latest THEN Outcome("BadRequest", <<>>)
    ELSE IF src.kind = "missing" THEN Outcome("NotFound", <<>>)
    ELSE IF ~SchemaValid(src) THEN Outcome("BadRequest", <<>>)
    ELSE IF src.version # req THEN Outcome("BadRequest", <<>>)
    ELSE Outcome("ok", src.version)

\* validateAndCache of the caching loader: the outcome and the cache after it
ValidateAndCache(src, cache) ==
    IF ~SchemaValid(src) THEN [out |-> Outcome("ZodError", <<>>), cache |-> cache]
    ELSE IF src.version = Latest \/ "*" \in Range(src.version)
         THEN [out |-> Outcome("BadRequest", <<>>), cache |-> cache]
    ELSE [out |-> Outcome("ok", src.version), cache |-> cache \cup {src.version}]

\* loadFromAPI of the caching loader
LoadFromAPI(req, src, cache) ==
    IF req \in cache THEN [out |-> Outcome("ok", req), cache |-> cache]
    ELSE IF src.kind = "missing" THEN [out |-> Outcome("NotFound", <<>>), cache |-> cache]
    ELSE ValidateAndCache(src, cache)

\* loadFromFile of the caching loader: a ZodError becomes BadRequestException
LoadFromFile(src, cache) ==
    IF src.kind = "missing" THEN [out |-> Outcome("NotFound", <<>>), cache |-> cache]
    ELSE LET r == ValidateAndCache(src, cache)
         IN  IF r.out.status = "ZodError"
             THEN [out |-> Outcome("BadRequest", <<>>), cache |-> cache]
             ELSE r

VersionsOfLen(n) == [1..n -> VersionChars]

LoaderStart(req, src) ==
    [k |-> "loader", req |-> req, src |-> src, op |-> "none", out |-> Pending,
     cache |-> {}, calls |-> 0]

LoaderInit ==
    /\ OrchInit /\ ProjIdle /\ ArtIdle /\ SvcIdle /\ GovIdle
    /\ \E n \in 0..MaxVersionLen : \E req \in VersionsOfLen(n) :
          \E src \in TopicSources(req) : loader = LoaderStart(req, src)

loaderFrame == <<orchVars, projVars, art, svcVars, gov>>

\* the orchestrator's loader is asked for the version
LoadTopicCall ==
    /\ loader.k = "loader" /\ loader.op = "none"
    /\ loader' = [loader EXCEPT !.op = "loadTopic",
                                !.out = LoadTopicResult(loader.req, loader.src)]
    /\ UNCHANGED loaderFrame

\* the caching loader reads the topic file
LoadFromFileCall ==
    /\ loader.k = "loader" /\ loader.op # "loadTopic" /\ loader.calls < MaxLoads
    /\ LET r == LoadFromFile(loader.src, loader.cache)
       IN  loader' = [loader EXCEPT !.op = "loadFromFile", !.out = r.out,
                                    !.cache = r.cache, !.calls = @ + 1]
    /\ UNCHANGED loaderFrame

\* the caching loader is asked for a version; the API answers with the topic
\* data or with 404
LoadFromAPICall ==
    /\ loader.k = "loader" /\ loader.op # "loadTopic" /\ loader.calls < MaxLoads
    /\ \E req \in {loader.req} \cup OtherVersions, src \in {loader.src, NoTopicData} :
          LET r == LoadFromAPI(req, src, loader.cache)
          IN  loader' = [loader EXCEPT !.op = "loadFromAPI", !.req = req, !.src = src,
                                       !.out = r.out, !.cache = r.cache, !.calls = @ + 1]
    /\ UNCHANGED loaderFrame

LoaderNext == LoadTopicCall \/ LoadFromFileCall \/ LoadFromAPICall

LoaderSpec == LoaderInit /\ [][LoaderNext]_vars

\* a version string of digit groups separated by exactly two dots
PinnedVersion(v) ==
    /\ Len(v) >= 5
    /\ Cardinality({i \in 1..Len(v) : v[i] = "."}) = 2
    /\ \A i \in 1..Len(v) : v[i] \in {"1", "2", "."}
    /\ v[1] # "." /\ v[Len(v)] # "."
    /\ \A i \in 1..(Len(v) - 1) : ~(v[i] = "." /\ v[i + 1] = ".")

\* C25: loadTopic, once it has answered, either rejected or returned a config
\* whose version is a pinned version equal to the requested one, so a request
\* for 'latest', a wildcard or any other unpinned version is rejected; the
\* caching loader returns only configs with a pinned version, and every entry
\* of its cache is a pinned version, never 'latest' or a wildcard.
C25_OnlyPinnedConfigsLoad ==
    loader.k = "loader" =>
        /\ (loader.op = "loadTopic" /\ loader.out.status = "ok") =>
              /\ PinnedVersion(loader.out.version)
              /\ loader.out.version = loader.req
              /\ loader.src = ConfigOf(loader.req)
        /\ (loader.op = "loadTopic" /\ ~PinnedVersion(loader.req)) =>
              loader.out.status \in {"BadRequest", "NotFound"}
        /\ (loader.op = "loadTopic" /\ loader.req = <<"latest">>) =>
              loader.out.status = "BadRequest"
        /\ loader.out.status = "ok" => PinnedVersion(loader.out.version)
        /\ \A v \in loader.cache :
              /\ PinnedVersion(v)
              /\ v # <<"latest">>
              /\ "*" \notin Range(v)
        /\ loader.op = "loadTopic" => loader.cache = {}

\* the caching loader answered a request from its cache
C25_Witness ==
    /\ loader.k = "loader"
    /\ loader.op = "loadFromAPI"
    /\ loader.calls = 2
    /\ loader.src = NoTopicData
    /\ loader.out = Outcome("ok", <<"1", ".", "1", ".", "1">>)
    /\ loader.cache = {<<"1", ".", "1", ".", "1">>}


\* ---------------------------------------------------------------------------
\* OrchestratorService.getGenerationStats over the lines of the daily run log
\* (src/unnamed/part_001:436-473, storage.service.ts:138-158 and 337-365).
\* A line is the run metadata as storeRunLog wrote it.  A timestamp is <<t>>
\* when the key is present and <<>> when it is missing.
\* ---------------------------------------------------------------------------

MaxLogs == 3

MaxTime == 1

Topics == {"t1", "t2"}

NoTimestamp == <<>>

Timestamps == {<<t>> : t \in 0..MaxTime}

LogLine(run_id, topic_id, status, started_at, completed_at) ==
    [run_id |-> run_id, topic_id |-> topic_id, status |-> status,
     started_at |-> started_at, completed_at |-> completed_at]

\* The lines storeRunLog can have written: a line of a run still 'running' has
\* no completed_at, a line of a settled run has one that is not before
\* started_at.
LogLines ==
    {LogLine(0, t, "running", s, NoTimestamp) : t \in Topics, s \in Timestamps}
    \cup {l \in {LogLine(0, t, st, s, c) : t \in Topics, st \in {"completed", "failed"},
                                           s \in Timestamps, c \in Timestamps} :
             l.started_at[1] <= l.completed_at[1]}

\* getRunLogs: every line of the daily log, in file order.
getRunLogs(lines) == lines

\* `log.completed_at && log.started_at`
HasDuration(log) == log.completed_at # NoTimestamp /\ log.started_at # NoTimestamp

Ratio(n, d) == [num |-> n, den |-> d]

SameRatio(a, b) == a.num * b.den = b.num * a.den

NoCounts == [t \in {} |-> 0]

CountTopic(byTopic, t) ==
    IF t \in DOMAIN byTopic THEN [byTopic EXCEPT ![t] = @ + 1]
    ELSE [u \in DOMAIN byTopic \cup {t} |-> IF u = t THEN 1 ELSE byTopic[u]]

\* The for loop of getGenerationStats: byTopic, totalDuration, durationCount.
RECURSIVE StatsLoop(_, _, _)
StatsLoop(logs, i, acc) ==
    IF i > Len(logs) THEN acc
    ELSE LET log == logs[i]
             counted == [acc EXCEPT !.byTopic = CountTopic(@, log.topic_id)]
         IN  StatsLoop(logs, i + 1,
                 IF HasDuration(log)
                 THEN [counted EXCEPT
                         !.totalDuration = @ + (log.completed_at[1] - log.started_at[1]),
                         !.durationCount = @ + 1]
                 ELSE counted)

CountStatus(logs, st) == Cardinality({i \in DOMAIN logs : logs[i].status = st})

\* An average that divides by the number of all lines.
AverageDuration_CountsAll(logs, acc) ==
    IF Len(logs) > 0 THEN Ratio(acc.totalDuration, Len(logs) * 1000) ELSE Ratio(0, 1)

\* totalDuration / durationCount / 1000, kept as an exact fraction.
AverageDuration(logs, acc) ==
    IF acc.durationCount > 0 THEN Ratio(acc.totalDuration, acc.durationCount * 1000)
    ELSE Ratio(0, 1)

GenerationStats(lines) ==
    LET logs == getRunLogs(lines)
        acc  == StatsLoop(logs, 1, [byTopic |-> NoCounts, totalDuration |-> 0,
                                    durationCount |-> 0])
    IN  [k |-> "stats",
         totalRuns |-> Len(logs),
         successfulRuns |-> CountStatus(logs, "completed"),
         failedRuns |-> CountStatus(logs, "failed"),
         averageDuration |-> AverageDuration(logs, acc),
         byTopic |-> acc.byTopic]

LogLists(n) == [1..n -> LogLines]

StatsInit ==
    /\ OrchInit /\ ProjIdle /\ ArtIdle /\ LoaderIdle /\ GovIdle
    /\ svc = NotStarted
    /\ stats = NotStarted
    /\ \E n \in 0..MaxLogs : runLogs \in LogLists(n)

GetGenerationStats ==
    /\ stats' = GenerationStats(runLogs)
    /\ UNCHANGED <<orchVars, projVars, art, loader, svc, runLogs, gov>>

StatsNext == GetGenerationStats

StatsSpec == StatsInit /\ [][StatsNext]_vars

\* --- C26 -------------------------------------------------------------------

RECURSIVE SumDurations(_, _)
SumDurations(logs, S) ==
    IF S = {} THEN 0
    ELSE LET i == CHOOSE j \in S : TRUE
         IN  (logs[i].completed_at[1] - logs[i].started_at[1])
             + SumDurations(logs, S \ {i})

WithBothTimestamps(logs) ==
    {i \in DOMAIN logs : logs[i].started_at # NoTimestamp
                         /\ logs[i].completed_at # NoTimestamp}

\* C26: averageDuration is the mean, in seconds, of completed_at - started_at
\* over exactly the run records that have both timestamps; records without
\* completed_at do not enter the mean, and the average is 0 when no record
\* has both.
C26_AverageOverRecordsWithBothTimestamps ==
    stats # NotStarted =>
        LET Q == WithBothTimestamps(runLogs)
        IN  IF Q = {} THEN stats.averageDuration = Ratio(0, 1)
            ELSE SameRatio(stats.averageDuration,
                           Ratio(SumDurations(runLogs, Q), Cardinality(Q) * 1000))

C26_Witness ==
    /\ stats # NotStarted
    /\ \E i \in DOMAIN runLogs : runLogs[i].completed_at = NoTimestamp
    /\ \E i \in DOMAIN runLogs : /\ runLogs[i].completed_at # NoTimestamp
                                 /\ runLogs[i].completed_at # runLogs[i].started_at
    /\ stats.averageDuration.num > 0


\* ---------------------------------------------------------------------------
\* OrchestratorService.generateArticle (src/unnamed/part_001:48-213) with
\* executeStage (218-282), writing the run log through StorageService.
\* One call runs at a time; each stage is one step, and a collaborator either
\* returns or throws.
\* ---------------------------------------------------------------------------

MaxRuns == 2

NoCall == [k |-> "none"]

Null == [k |-> "null"]

Undefined == [k |-> "undefined"]

CitationList(items) == [k |-> "list", items |-> items]

EmptyCitations == CitationList(<<>>)

\* What researchAgent.research can return.
ResearchResults == {EmptyCitations, CitationList(<<"c1">>)}

GenerationOptionsSet ==
    [topicId : Topics, skipResearch : BOOLEAN, skipRefinement : BOOLEAN]

\* What a stage function did: threw, or returned a value.
Returned(v) == [throws |-> FALSE, value |-> v]

Thrown == [throws |-> TRUE, value |-> Null]

PushStage(meta, stageName, status) ==
    [meta EXCEPT !.stages = Append(@, [name |-> stageName, status |-> status])]

\* executeStage: a stage given skipStatus 'skipped' is recorded as skipped and
\* yields null without its stage function being called; otherwise the stage
\* function is awaited and the stage ends completed or failed.
executeStage(meta, stageName, fn, skipStatus) ==
    IF skipStatus = "skipped"
    THEN [meta |-> PushStage(meta, stageName, "skipped"), called |-> FALSE,
          thrown |-> FALSE, result |-> Null]
    ELSE IF fn.throws
    THEN [meta |-> PushStage(meta, stageName, "failed"), called |-> TRUE,
          thrown |-> TRUE, result |-> Null]
    ELSE [meta |-> PushStage(meta, stageName, "completed"), called |-> TRUE,
          thrown |-> FALSE, result |-> fn.value]

\* `options.skipResearch ? 'skipped' : undefined`
SkipStatus(flag) == IF flag THEN "skipped" ELSE "undefined"

BasicSEOMetadata == [k |-> "seo", by |-> "generateBasicSEOMetadata"]

RefinedSEOMetadata == [k |-> "seo", by |-> "refineSEOAgent"]

Sections(by, citations) == [k |-> "sections", by |-> by, citations |-> citations]

Outline(citations) == [k |-> "outline", citations |-> citations]

\* The body of the refine_seo stage function.
RefineStageFunction(options, draftSections) ==
    IF options.skipRefinement
    THEN [sections |-> draftSections, seoMetadata |-> BasicSEOMetadata]
    ELSE [sections |-> Sections("refineSEOAgent", draftSections.citations),
          seoMetadata |-> RefinedSEOMetadata]

\* storeRunLog: appends the run metadata as a line of the daily log.
storeRunLog(lines, meta) ==
    Append(lines, LogLine(meta.run_id, meta.topic_id, meta.status,
                          meta.started_at, meta.completed_at))

NewCall(options, runId, startedAt) ==
    [options |-> options,
     runMetadata |-> [run_id |-> runId, topic_id |-> "", status |-> "running",
                      started_at |-> <<startedAt>>, completed_at |-> NoTimestamp,
                      stages |-> <<>>],
     at |-> "load_topic", error |-> "none", invoked |-> {},
     citations |-> Undefined, outline |-> Undefined, draftSections |-> Undefined,
     sections |-> Undefined, seoMetadata |-> Undefined, article |-> Undefined]

SvcStart ==
    [k |-> "svc", clock |-> 0, started |-> 0, executed |-> <<>>, call |-> NoCall]

SvcInit ==
    /\ OrchInit /\ ProjIdle /\ ArtIdle /\ LoaderIdle /\ GovIdle
    /\ svc = SvcStart
    /\ runLogs = <<>>
    /\ stats = NotStarted

svcFrame == <<orchVars, projVars, art, loader, gov>>

SvcAt(stageName) == svc.k = "svc" /\ svc.call # NoCall /\ svc.call.at = stageName

\* The call after executeStage returned e: on a throw control goes to the
\* catch block, otherwise to the next stage.
AfterStageOf(c, e, collaborator, nextAt) ==
    [c EXCEPT !.runMetadata = e.meta,
              !.invoked = IF e.called THEN @ \cup {collaborator} ELSE @,
              !.error = IF e.thrown THEN collaborator ELSE @,
              !.at = IF e.thrown THEN "catch" ELSE nextAt]

GenerateArticleCall ==
    /\ svc.k = "svc" /\ svc.call = NoCall
    /\ svc.started < MaxRuns
    /\ \E options \in GenerationOptionsSet :
          svc' = [svc EXCEPT !.started = @ + 1,
                             !.call = NewCall(options, svc.started + 1, svc.clock)]
    /\ UNCHANGED <<runLogs, stats, svcFrame>>

SvcLoadTopic ==
    /\ SvcAt("load_topic")
    /\ \E fn \in {Returned(svc.call.options.topicId), Thrown} :
          LET c == svc.call
              e == executeStage(c.runMetadata, "load_topic", fn, "undefined")
              d == AfterStageOf(c, e, "topicLoader", "research")
          IN  svc' = [svc EXCEPT !.call =
                        IF e.thrown THEN d
                        ELSE [d EXCEPT !.runMetadata.topic_id = e.result]]
    /\ UNCHANGED <<runLogs, stats, svcFrame>>

SvcResearch ==
    /\ SvcAt("research")
    /\ \E fn \in {Returned(r) : r \in ResearchResults} \cup {Thrown} :
          LET c == svc.call
              e == executeStage(c.runMetadata, "research", fn,
                                SkipStatus(c.options.skipResearch))
              d == AfterStageOf(c, e, "researchAgent", "outline")
          IN  svc' = [svc EXCEPT !.call =
                        IF e.thrown THEN d ELSE [d EXCEPT !.citations = e.result]]
    /\ UNCHANGED <<runLogs, stats, svcFrame>>

SvcOutline ==
    /\ SvcAt("outline")
    /\ \E fn \in {Returned(Outline(svc.call.citations)), Thrown} :
          LET c == svc.call
              e == executeStage(c.runMetadata, "outline", fn, "undefined")
              d == AfterStageOf(c, e, "outlineAgent", "draft")
          IN  svc' = [svc EXCEPT !.call =
                        IF e.thrown THEN d ELSE [d EXCEPT !.outline = e.result]]
    /\ UNCHANGED <<runLogs, stats, svcFrame>>

SvcDraft ==
    /\ SvcAt("draft")
    /\ \E fn \in {Returned(Sections("draftAgent", svc.call.citations)), Thrown} :
          LET c == svc.call
              e == executeStage(c.runMetadata, "draft", fn, "undefined")
              d == AfterStageOf(c, e, "draftAgent", "refine_seo")
          IN  svc' = [svc EXCEPT !.call =
                        IF e.thrown THEN d ELSE [d EXCEPT !.draftSections = e.result]]
    /\ UNCHANGED <<runLogs, stats, svcFrame>>

\* `const { sections, seoMetadata } = await this.executeStage('refine_seo', ...)`:
\* destructuring null throws a TypeError, which the catch block of
\* generateArticle receives.  The article object is built right after.
SvcRefine ==
    /\ SvcAt("refine_seo")
    /\ \E fn \in {Returned(RefineStageFunction(svc.call.options, svc.call.draftSections)),
                  Thrown} :
          LET c == svc.call
              e == executeStage(c.runMetadata, "refine_seo", fn,
                                SkipStatus(c.options.skipRefinement))
              d == AfterStageOf(c, e, "refineSEOAgent", "export")
          IN  svc' = [svc EXCEPT !.call =
                        IF e.thrown THEN d
                        ELSE IF e.result = Null
                        THEN [d EXCEPT !.error = "TypeError", !.at = "catch"]
                        ELSE [d EXCEPT !.sections = e.result.sections,
                                       !.seoMetadata = e.result.seoMetadata,
                                       !.article = [sections |-> e.result.sections,
                                                    citations |-> c.citations,
                                                    seo_metadata |-> e.result.seoMetadata]]]
    /\ UNCHANGED <<runLogs, stats, svcFrame>>

SvcExport ==
    /\ SvcAt("export")
    /\ \E fn \in {Returned(Null), Thrown} :
          LET c == svc.call
              e == executeStage(c.runMetadata, "export", fn, "undefined")
          IN  svc' = [svc EXCEPT !.call = AfterStageOf(c, e, "exporter", "storage")]
    /\ UNCHANGED <<runLogs, stats, svcFrame>>

\* The storage stage: storeArticle writes the exports and the metadata, then
\* calls storeRunLog with the run metadata, whose status is still 'running',
\* then updates the index.  It can throw before or after the log line.
SvcStorage ==
    /\ SvcAt("storage")
    /\ \E logged \in BOOLEAN, fn \in {Returned(Null), Thrown} :
          LET c == svc.call
              e == executeStage(c.runMetadata, "storage", fn, "undefined")
              running == PushStage(c.runMetadata, "storage", "running")
          IN  /\ ~fn.throws => logged
              /\ svc' = [svc EXCEPT !.call = AfterStageOf(c, e, "storage", "finish")]
              /\ runLogs' = IF logged THEN storeRunLog(runLogs, running) ELSE runLogs
    /\ UNCHANGED <<stats, svcFrame>>

SettledRun(c, meta) == [topic_id |-> meta.topic_id, status |-> meta.status]

\* Lines 174-192: the run is marked completed, logged and the article returned.
SvcFinish ==
    /\ SvcAt("finish")
    /\ LET c == svc.call
           meta == [c.runMetadata EXCEPT !.status = "completed",
                                         !.completed_at = <<svc.clock + 1>>]
       IN  /\ runLogs' = storeRunLog(runLogs, meta)
           /\ svc' = [svc EXCEPT !.clock = @ + 1, !.call = NoCall,
                                 !.executed = Append(@, SettledRun(c, meta))]
    /\ UNCHANGED <<stats, svcFrame>>

\* Lines 195-212: the catch block marks the run failed, logs it and rethrows.
SvcCatch ==
    /\ SvcAt("catch")
    /\ LET c == svc.call
           meta == [c.runMetadata EXCEPT !.status = "failed",
                                         !.completed_at = <<svc.clock + 1>>]
       IN  /\ runLogs' = storeRunLog(runLogs, meta)
           /\ svc' = [svc EXCEPT !.clock = @ + 1, !.call = NoCall,
                                 !.executed = Append(@, SettledRun(c, meta))]
    /\ UNCHANGED <<stats, svcFrame>>

SvcNext ==
    \/ GenerateArticleCall
    \/ SvcLoadTopic
    \/ SvcResearch
    \/ SvcOutline
    \/ SvcDraft
    \/ SvcRefine
    \/ SvcExport
    \/ SvcStorage
    \/ SvcFinish
    \/ SvcCatch
    \/ GetGenerationStats

SvcSpec == SvcInit /\ [][SvcNext]_vars


\* --- C27 -------------------------------------------------------------------

StageRecorded(c, stageName) ==
    \E i \in DOMAIN c.runMetadata.stages : c.runMetadata.stages[i].name = stageName

StageStatusOf(c, stageName) ==
    LET i == CHOOSE j \in DOMAIN c.runMetadata.stages :
                 c.runMetadata.stages[j].name = stageName
    IN  c.runMetadata.stages[i].status

\* The call failed although no collaborator threw.
FailedByItself(c) == c.at = "catch" /\ c.error = "TypeError"

\* C27: a stage skipped by option is recorded as skipped and its collaborator
\* is not invoked, and the run goes on: with skipResearch the later stages
\* receive an empty citation list, with skipRefinement the article's sections
\* are the draft sections and its SEO metadata the basic one, and the run does
\* not fail unless a collaborator throws.
C27_SkippedStagesLetTheRunComplete ==
    (svc.k = "svc" /\ svc.call # NoCall) =>
        LET c == svc.call
        IN  /\ (c.options.skipResearch /\ StageRecorded(c, "research")) =>
                  /\ StageStatusOf(c, "research") = "skipped"
                  /\ "researchAgent" \notin c.invoked
            /\ (c.options.skipResearch /\ c.outline # Undefined) =>
                  c.outline.citations = EmptyCitations
            /\ (c.options.skipResearch /\ c.draftSections # Undefined) =>
                  c.draftSections.citations = EmptyCitations
            /\ (c.options.skipRefinement /\ StageRecorded(c, "refine_seo")) =>
                  /\ StageStatusOf(c, "refine_seo") = "skipped"
                  /\ "refineSEOAgent" \notin c.invoked
                  /\ c.sections = c.draftSections
                  /\ c.seoMetadata = BasicSEOMetadata
            /\ ~FailedByItself(c)

\* What does hold of a skipped stage: it is recorded as skipped and its
\* collaborator is not invoked.
SkippedStageRecordedAndNotInvoked ==
    (svc.k = "svc" /\ svc.call # NoCall) =>
        LET c == svc.call
        IN  /\ (c.options.skipResearch /\ StageRecorded(c, "research")) =>
                  /\ StageStatusOf(c, "research") = "skipped"
                  /\ "researchAgent" \notin c.invoked
            /\ (c.options.skipRefinement /\ StageRecorded(c, "refine_seo")) =>
                  /\ StageStatusOf(c, "refine_seo") = "skipped"
                  /\ "refineSEOAgent" \notin c.invoked

\* With skipResearch the outline agent is handed null, not an empty list.
SkipResearchPassesEmptyList ==
    (svc.k = "svc" /\ svc.call # NoCall /\ svc.call.options.skipResearch
        /\ svc.call.outline # Undefined) =>
        svc.call.outline.citations = EmptyCitations

\* With skipRefinement no run gets past refine_seo.
SkipRefinementNeverExports ==
    (svc.k = "svc" /\ svc.call # NoCall /\ svc.call.options.skipRefinement) =>
        svc.call.at \notin {"export", "storage", "finish"}

\* --- C28 -------------------------------------------------------------------

RunsOfTopic(executed, t) ==
    Cardinality({i \in DOMAIN executed : executed[i].topic_id = t})

CountOf(byTopic, t) == IF t \in DOMAIN byTopic THEN byTopic[t] ELSE 0

LoggedTopics == Topics \cup {""}

\* C28: statistics taken when every generateArticle call has settled count
\* every run exactly once: totalRuns is the number of runs executed,
\* successfulRuns + failedRuns = totalRuns, and byTopic[t] is the number of
\* runs of topic t.
C28_EveryRunCountedOnce ==
    [][(svc.k = "svc" /\ svc.call = NoCall /\ stats' # stats) =>
          /\ stats'.totalRuns = Len(svc.executed)
          /\ stats'.successfulRuns + stats'.failedRuns = stats'.totalRuns
          /\ \A t \in LoggedTopics :
                CountOf(stats'.byTopic, t) = RunsOfTopic(svc.executed, t)]_vars

\* With no completed run in the log the counts are right: the surplus line
\* is the one storeArticle writes.
OnlyFailedRunsCountedOnce ==
    [][(svc.k = "svc" /\ svc.call = NoCall /\ stats' # stats
          /\ \A i \in DOMAIN runLogs : runLogs[i].status # "running") =>
          /\ stats'.totalRuns = Len(svc.executed)
          /\ stats'.successfulRuns + stats'.failedRuns = stats'.totalRuns
          /\ \A t \in LoggedTopics :
                CountOf(stats'.byTopic, t) = RunsOfTopic(svc.executed, t)]_vars


\* ---------------------------------------------------------------------------
\* GovernanceService version pins (src/src/services/governance.service.ts).
\* One topic; its pin files pins/<topic>-<version>.json are "missing",
\* "active" or "inactive".  Calls run concurrently on the event loop, and each
\* await of a call is one step.
\* ---------------------------------------------------------------------------

MaxGovCalls == 3

PinVersions == {"1.0.0", "2.0.0"}

\* Versions a caller can ask for.
RequestedVersions == PinVersions \cup {"latest"}

\* /^\d+\.\d+\.\d+$/ on the versions above.
isValidVersion(v) == v \in PinVersions

NoPins == [v \in PinVersions |-> "missing"]

ActivePins(pins) == {v \in PinVersions : pins[v] = "active"}

\* getPinnedVersion: the pinned version of the first active pin in readdir
\* order, which is any of the active ones, and null when there is none.
getPinnedVersion(pins) ==
    IF ActivePins(pins) = {} THEN {"null"} ELSE ActivePins(pins)

GovRequests ==
    {[op |-> "pinVersion", version |-> v] : v \in RequestedVersions}
    \cup {[op |-> "unpinVersion", version |-> "unpinned"]}
    \cup {[op |-> "rollbackVersion", version |-> v] : v \in RequestedVersions}

GovCallOf(req, step) ==
    [op |-> req.op, version |-> req.version, pc |-> step, files |-> {}, file |-> "none"]

\* The synchronous start of a call, up to its first await.
GovEntry(req) ==
    IF req.op = "pinVersion"
    THEN IF ~isValidVersion(req.version) \/ req.version = "latest"
         THEN GovCallOf(req, "thrown")
         ELSE GovCallOf(req, "readdir")
    ELSE IF req.op = "unpinVersion" THEN GovCallOf(req, "readdir")
    ELSE GovCallOf(req, "getPinnedVersion")

GovInFlight(calls) == {i \in DOMAIN calls : calls[i].pc \notin {"done", "thrown"}}

GovStart ==
    [k |-> "gov", pins |-> NoPins, calls |-> <<>>, overlapped |-> FALSE,
     lastPin |-> "none"]

GovInit ==
    /\ OrchInit /\ ProjIdle /\ ArtIdle /\ LoaderIdle /\ SvcIdle
    /\ gov = GovStart

govFrame == <<orchVars, projVars, art, loader, svcVars>>

GovAt(i, step) == gov.calls[i].pc = step

GovSettle(call, step) == [call EXCEPT !.pc = step, !.files = {}, !.file = "none"]

\* A controller calls pinVersion, unpinVersion or rollbackVersion.
GovCall ==
    /\ Len(gov.calls) < MaxGovCalls
    /\ \E req \in GovRequests :
          gov' = [gov EXCEPT
                    !.calls = Append(@, GovEntry(req)),
                    !.overlapped = @ \/ (GovInFlight(gov.calls) # {}
                                         /\ GovEntry(req).pc # "thrown")]
    /\ UNCHANGED govFrame

\* rollbackVersion lines 199-222: the current pin is read and the request
\* checked; the rollback record is saved afterwards.
RollbackGetPinned ==
    /\ \E i \in DOMAIN gov.calls :
          /\ GovAt(i, "getPinnedVersion")
          /\ \E currentVersion \in getPinnedVersion(gov.pins) :
                LET call == gov.calls[i]
                    rejected == \/ currentVersion = "null"
                                \/ currentVersion = call.version
                                \/ ~isValidVersion(call.version)
                IN  gov' = [gov EXCEPT !.calls[i] =
                              IF rejected THEN GovSettle(call, "thrown")
                              ELSE [call EXCEPT !.pc = "saveRollback"]]
    /\ UNCHANGED govFrame

\* Lines 214-231: findArticlesByTopicVersion and the rollback record, then
\* pinVersion(topicId, toVersion).
RollbackSave ==
    /\ \E i \in DOMAIN gov.calls :
          /\ GovAt(i, "saveRollback")
          /\ gov' = [gov EXCEPT !.calls[i].pc = "readdir"]
    /\ UNCHANGED govFrame

\* deactivateExistingPins: `const files = await fs.readdir(pinsDir)`.
DeactivateReaddir ==
    /\ \E i \in DOMAIN gov.calls :
          /\ GovAt(i, "readdir")
          /\ gov' = [gov EXCEPT
                       !.calls[i].files = {v \in PinVersions : gov.pins[v] # "missing"},
                       !.calls[i].pc = "loop"]
    /\ UNCHANGED govFrame

\* `const content = await fs.readFile(pinPath)` for the next file of the
\* listing; an active pin is written back inactive at the next step.
DeactivateReadFile ==
    /\ \E i \in DOMAIN gov.calls :
          /\ GovAt(i, "loop")
          /\ \E f \in gov.calls[i].files :
                gov' = [gov EXCEPT
                          !.calls[i].files = @ \ {f},
                          !.calls[i].file = f,
                          !.calls[i].pc = IF gov.pins[f] = "active"
                                          THEN "writeInactive" ELSE "loop"]
    /\ UNCHANGED govFrame

\* `pin.active = false; await fs.writeFile(pinPath, ...)`
DeactivateWriteFile ==
    /\ \E i \in DOMAIN gov.calls :
          /\ GovAt(i, "writeInactive")
          /\ gov' = [gov EXCEPT !.pins[gov.calls[i].file] = "inactive",
                                !.calls[i].pc = "loop"]
    /\ UNCHANGED govFrame

\* deactivateExistingPins returns: pinVersion goes on to write its pin,
\* unpinVersion to record its event.
DeactivateReturns ==
    /\ \E i \in DOMAIN gov.calls :
          /\ GovAt(i, "loop")
          /\ gov.calls[i].files = {}
          /\ gov' = [gov EXCEPT !.calls[i].pc =
                       IF gov.calls[i].op = "unpinVersion" THEN "recordEvent"
                       ELSE "writePin"]
    /\ UNCHANGED govFrame

\* pinVersion lines 125-136: the new pin, active, is written to its file.
PinWriteFile ==
    /\ \E i \in DOMAIN gov.calls :
          /\ GovAt(i, "writePin")
          /\ gov' = [gov EXCEPT !.pins[gov.calls[i].version] = "active",
                                !.calls[i].pc = "recordEvent"]
    /\ UNCHANGED govFrame

\* recordEvent, after which the call returns.
GovRecordEvent ==
    /\ \E i \in DOMAIN gov.calls :
          /\ GovAt(i, "recordEvent")
          /\ gov' = [gov EXCEPT
                       !.calls[i] = GovSettle(@, "done"),
                       !.lastPin = IF gov.calls[i].op = "unpinVersion" THEN "none"
                                   ELSE gov.calls[i].version]
    /\ UNCHANGED govFrame

GovNext ==
    \/ GovCall
    \/ RollbackGetPinned
    \/ RollbackSave
    \/ DeactivateReaddir
    \/ DeactivateReadFile
    \/ DeactivateWriteFile
    \/ DeactivateReturns
    \/ PinWriteFile
    \/ GovRecordEvent

GovSpec == GovInit /\ [][GovNext]_vars

\* --- C30 -------------------------------------------------------------------

AtMostOneActivePin == Cardinality(ActivePins(gov.pins)) <= 1

\* The last mutating call to return was a pinVersion (or the pinVersion of a
\* rollback) of lastPin, and nothing is in flight.
PinnedAndQuiet == gov.lastPin # "none" /\ GovInFlight(gov.calls) = {}

\* C30: a topic has at most one active pin at any time, whatever the
\* interleaving of pinVersion, unpinVersion and rollbackVersion, and after a
\* successful pinVersion(topic, v) getPinnedVersion(topic) returns v.
C30_AtMostOneActivePin ==
    gov.k = "gov" =>
        /\ AtMostOneActivePin
        /\ (PinnedAndQuiet /\ ~gov.overlapped) =>
              getPinnedVersion(gov.pins) = {gov.lastPin}

\* Calls that never overlap keep the pins consistent.
SequentialCallsKeepOnePin ==
    (gov.k = "gov" /\ ~gov.overlapped) =>
        /\ AtMostOneActivePin
        /\ PinnedAndQuiet => getPinnedVersion(gov.pins) = {gov.lastPin}

TwoActivePinsAtRest ==
    gov.k = "gov" /\ GovInFlight(gov.calls) = {} /\ Cardinality(ActivePins(gov.pins)) = 2

====
